---- MODULE Spec2Model ----
(***************************************************************************)
(* Model of calc_props.py: conformer-averaged shape descriptors.           *)
(*                                                                         *)
(* Numbers.  numpy floats are modelled by exact rationals [k, n, d]        *)
(* (k = "num": n/d in lowest terms, d > 0; k = "nan": IEEE NaN; k =        *)
(* "uninit": a slot of np.empty that was never written).  Rounding is not  *)
(* modelled: coordinates are small integers, for which the sums and means  *)
(* the code forms are exact.                                               *)
(*                                                                         *)
(* Point clouds.  Conformers are prefixes of the vertex list of a box with *)
(* a square base of side a (collapsed, 0, or unit, 1) and height c, kept   *)
(* only when their covariance matrix is diagonal, so that the eigenvalues  *)
(* numpy returns are the diagonal entries and the singular vectors are     *)
(* coordinate axes.  The descriptors of a box depend on the ratio c : a.   *)
(*                                                                         *)
(* Spec is one call of average_properties on a molecule as smiles_to_ob    *)
(* builds it (one coordinate set, none for the empty molecule).  SpecFn    *)
(* is a caller applying calc_glob, calc_pbf and rotatable_bonds directly   *)
(* to a pybel view of such a molecule.                                     *)
(***************************************************************************)
EXTENDS Integers, Sequences, FiniteSets, TLC

\* ------------------------------------------------------------------ bounds
MaxHeight == 2     \* largest height of a box
MaxAtoms == 4      \* most atoms of a molecule
MaxConfs == 2      \* most conformers the search returns
MaxBonds == 3      \* most bonds of a molecule handed to a descriptor
MaxMolBonds == 1   \* most bonds of a molecule handed to average_properties

\* ------------------------------------------------------------- arithmetic
\* the element of a one-element set; { e(v) : v \in {x} } computes x once
The(S) == CHOOSE x \in S : TRUE

Abs(x) == IF x < 0 THEN -x ELSE x

RECURSIVE GCD(_, _)
GCD(a, b) == IF b = 0 THEN a ELSE GCD(b, a % b)

\* the float n/d (d # 0), in lowest terms
Frac(n, d) ==
    LET s == IF d < 0 THEN -1 ELSE 1
        g == GCD(Abs(n), Abs(d))
    IN  [k |-> "num", n |-> (s * n) \div g, d |-> (s * d) \div g]

NaN == [k |-> "nan", n |-> 0, d |-> 0]
Uninit == [k |-> "uninit", n |-> 0, d |-> 0]
IsNum(f) == f.k = "num"

FracAdd(f, g) ==
    IF IsNum(f) /\ IsNum(g) THEN Frac(f.n * g.d + g.n * f.d, f.d * g.d)
    ELSE IF f.k = "uninit" \/ g.k = "uninit" THEN Uninit ELSE NaN

FracAbs(f) == IF IsNum(f) THEN Frac(Abs(f.n), f.d) ELSE f

\* f / c for an integer count c; x/0 is NaN for the float arrays numpy divides
FracDivInt(f, c) ==
    IF ~IsNum(f) THEN f ELSE IF c = 0 THEN NaN ELSE Frac(f.n, f.d * c)

FracLeq(f, g) == f.n * g.d <= g.n * f.d

RECURSIVE SumSeq(_)
SumSeq(s) ==
    IF s = <<>> THEN Frac(0, 1)
    ELSE The({ FracAdd(s[1], rest) : rest \in {SumSeq(Tail(s))} })

\* a mean that divides by one more than the length
np_mean_div_next(arr) == FracDivInt(SumSeq(arr), Len(arr) + 1)

\* a mean that leaves the last slot out
np_mean_drop_last(arr) ==
    FracDivInt(SumSeq(SubSeq(arr, 1, Len(arr) - 1)), Len(arr) - 1)

\* np.mean of a one-dimensional float array
np_mean(arr) == The({ FracDivInt(total, Len(arr)) : total \in {SumSeq(arr)} })

\* the outcome of a call: a returned value or a raised exception
Ok(v) == [ok |-> TRUE, val |-> v, err |-> "none"]
Raise(e) == [ok |-> FALSE, val |-> NaN, err |-> e]

\* ------------------------------------------------------------ input domains
BaseSides == {0, 1}

\* k-th vertex of the box with square base of side a and height c
BoxVertex(k, a, c) ==
    CASE k = 1 -> <<0, 0, 0>>
      [] k = 2 -> <<a, a, 0>>
      [] k = 3 -> <<a, 0, c>>
      [] k = 4 -> <<0, a, c>>
      [] k = 5 -> <<a, 0, 0>>
      [] k = 6 -> <<0, a, 0>>
      [] k = 7 -> <<0, 0, c>>
      [] OTHER -> <<a, a, c>>

ColSum(pts, r) ==
    LET RECURSIVE S(_)
        S(i) == IF i = 0 THEN 0 ELSE pts[i][r] + S(i - 1)
    IN  S(Len(pts))

\* the cloud minus its centroid, times n: row a is n x_a - S
Centred(pts) ==
    LET n == Len(pts)
        S == [r \in 1..3 |-> ColSum(pts, r)]
    IN  [a \in 1..n |-> [r \in 1..3 |-> n * pts[a][r] - S[r]]]

\* entry [r][s] is the sum over the atoms of (n x_r - S_r)(n x_s - S_s):
\* n^2 (n-1) times the covariance of coordinates r and s
ScatterOf(d) ==
    LET RECURSIVE T(_, _, _)
        T(a, r, s) == IF a = 0 THEN 0 ELSE d[a][r] * d[a][s] + T(a - 1, r, s)
    IN  [r \in 1..3 |-> [s \in 1..3 |-> T(Len(d), r, s)]]

Scatter(pts) == The({ ScatterOf(d) : d \in {Centred(pts)} })

IsDiagonal(pts) ==
    \A m \in {Scatter(pts)} : \A r \in 1..3 : \A s \in 1..3 : r # s => m[r][s] = 0

\* the conformers a molecule of n atoms may have
Clouds(n) ==
    { p \in { [k \in 1..n |-> BoxVertex(k, a, c)] : a \in BaseSides, c \in 0..MaxHeight } :
        IsDiagonal(p) }

Bond == [rotor : BOOLEAN, amide : BOOLEAN]
BondGraphs == UNION { [1..n -> Bond] : n \in 0..MaxBonds }

\* ------------------------------------------------------ calc_props.py
\* get_atom_coords: an n x 3 array filled row by row; never None
get_atom_coords(mol) ==
    [none |-> FALSE, pts |-> [a \in 1..Len(mol.atoms) |-> mol.atoms[a]]]

\* points.T and the three rows handed to np.cov
Transpose(pts) == [r \in 1..3 |-> [a \in 1..Len(pts) |-> pts[a][r]]]

\* np.cov of three series of n observations.  With n <= 1 the normalisation
\* n - 1 is <= 0: numpy warns, divides by zero and every entry is NaN.
\* Otherwise the entries are m[r][s] / (n^2 (n-1)); m is kept unscaled.
np_cov(rows) ==
    LET n == Len(rows[1])
        pts == [a \in 1..n |-> <<rows[1][a], rows[2][a], rows[3][a]>>]
    IN  IF n <= 1 THEN [nan |-> TRUE, m |-> <<>>]
        ELSE [nan |-> FALSE, m |-> Scatter(pts)]

\* np.linalg.eig: LinAlgError on a non-finite matrix, else the eigenvalues
\* (of a diagonal matrix: its diagonal, in order)
linalg_eig(c) ==
    IF c.nan THEN Raise("LinAlgError")
    ELSE Ok(<<c.m[1][1], c.m[2][2], c.m[3][3]>>)

Max3(v) == CHOOSE x \in {v[1], v[2], v[3]} : \A y \in {v[1], v[2], v[3]} : y <= x
Min3(v) == CHOOSE x \in {v[1], v[2], v[3]} : \A y \in {v[1], v[2], v[3]} : x <= y

\* a sort that is not reversed: ascending
SortAsc(v) == <<Min3(v), v[1] + v[2] + v[3] - Max3(v) - Min3(v), Max3(v)>>

\* np.sort(vals)[::-1]: descending
SortDesc(v) == <<Max3(v), v[1] + v[2] + v[3] - Max3(v) - Min3(v), Min3(v)>>

\* lines 132-136, vals being the sorted eigenvalues
GlobOfVals(vals) ==
    IF vals[1] # 0 THEN Ok(Frac(vals[3], vals[1])) ELSE Ok(Frac(-1, 1))

\* lines 126-136, points being the array get_atom_coords returned
GlobOfPoints(points) ==
    The({ IF ~e.ok THEN e
          ELSE The({ GlobOfVals(vals) : vals \in {SortDesc(e.val)} }) :
            e \in {linalg_eig(np_cov(Transpose(points)))} })

calc_glob(mol) ==
    The({ IF points.none THEN Ok(Frac(0, 1)) ELSE GlobOfPoints(points.pts) :
            points \in {get_atom_coords(mol)} })

\* a count that forgets the amide test
rotor_bonds(mol) ==
    Cardinality({ j \in 1..Len(mol.bonds) : mol.bonds[j].rotor })

rotatable_bonds(mol) ==
    LET RECURSIVE Loop(_, _)
        Loop(j, rb) ==
            IF j > Len(mol.bonds) THEN rb
            ELSE Loop(j + 1, IF mol.bonds[j].rotor /\ ~mol.bonds[j].amide
                             THEN rb + 1 ELSE rb)
    IN  Loop(1, 0)

\* the axes along which the centred cloud has least spread: the candidates
\* for V[-1] (with a tie numpy's choice is implementation-defined)
NormalAxes(X) ==
    UNION { { k \in 1..3 : \A j \in 1..3 : m[k][k] <= m[j][j] } : m \in {Scatter(X)} }

\* svd_fit: the centroid (column sums over n) and the normal, axis k
svd_fit(X, k) == [C |-> [r \in 1..3 |-> Frac(ColSum(X, r), Len(X))], N |-> k]

\* distance: dot(x - C, N) with N the unit vector of axis N
distance(x, C, N) == FracAdd(Frac(x[N], 1), Frac(-C[N].n, C[N].d))

calc_avg_dist(points, C, N) ==
    LET RECURSIVE Loop(_, _)
        Loop(j, sum) ==
            IF j > Len(points) THEN sum
            ELSE The({ Loop(j + 1, next) :
                         next \in {The({ FracAdd(sum, FracAbs(d)) :
                                           d \in {distance(points[j], C, N)} })} })
    IN  IF Len(points) = 0 THEN Raise("ZeroDivisionError")
        ELSE The({ Ok(FracDivInt(total, Len(points))) : total \in {Loop(1, Frac(0, 1))} })

\* calc_pbf, with k the axis the decomposition returns as normal
calc_pbf(mol, k) ==
    The({ IF Len(points) = 0 THEN Raise("LinAlgError")
          ELSE The({ calc_avg_dist(points, f.C, f.N) : f \in {svd_fit(points, k)} }) :
            points \in {get_atom_coords(mol).pts} })

\* ------------------------------------------------- the molecule (OBMol)
\* pybel.Molecule(m): a view of m through its active conformer
Pybel(m) ==
    [atoms |-> IF m.confs = <<>> THEN <<>> ELSE m.confs[m.cur + 1],
     bonds |-> m.bonds]

NumConformers(m) == Len(m.confs)

\* a cursor moved on a copy: the molecule itself keeps its conformer
SetConformerOnCopy(m, c) == m

\* a cursor that is always put on the first conformer
SetConformerFirst(m, c) == [m EXCEPT !.cur = 0]

SetConformer(m, c) == [m EXCEPT !.cur = c]

\* pymol.formula and pymol.molwt: functions of the atom list alone (atoms
\* are modelled as one element of unit mass)
formula(p) == <<"X", Len(p.atoms)>>
molwt(p) == Len(p.atoms)

\* the ensembles the conformer search may give a molecule of n atoms: none
\* for the empty molecule, else one to MaxConfs coordinate sets
Ensembles(n) ==
    IF n = 0 THEN {<<>>} ELSE UNION { [1..N -> Clouds(n)] : N \in 1..MaxConfs }

\* run_confab: pff.GetConformers(mol) writes the ensemble ens into the
\* caller's molecule and leaves its cursor on conformer c; mol is returned
run_confab(m, ens, c) == [m EXCEPT !.confs = ens, !.cur = c]

np_empty(n) == [j \in 1..n |-> Uninit]

\* a range that stops one index early
RangeStopsEarly(j, n) == j < n - 1

\* for i in range(num_confs)
RangeHasNext(j, n) == j < n

\* the molecules a caller may hold: the empty molecule has no coordinate
\* set, any other has the one it was read with
MoleculesOf(n) ==
    { [bonds |-> b, natoms |-> n, confs |-> IF n = 0 THEN <<>> ELSE <<c>>, cur |-> 0] :
        b \in BondGraphs, c \in Clouds(n) }

Molecules == UNION { MoleculesOf(n) : n \in 0..MaxAtoms }

\* ------------------------------------------------------------------ state
VARIABLES
    mol,        \* the caller's molecule: bonds, natoms, confs, cur
    pc,         \* position in average_properties
    num_confs, i, globs, pbfs,   \* its locals
    pymol,      \* its local pymol: bound or not, and the conformer active at its creation
    data,       \* the dictionary it returns
    outcome,    \* "none", "return" or "raise"
    err,        \* the exception raised
    visited,    \* the loop indices taken, in order
    reads,      \* the reads of form, molwt and rb, in order
    ret         \* the outcome of the caller's last direct descriptor call

vars == <<mol, pc, num_confs, i, globs, pbfs, pymol, data, outcome, err, visited, reads, ret>>

locals == <<num_confs, i, globs, pbfs, pymol, data, outcome, err, visited, reads>>

Unbound == [bound |-> FALSE, conf |-> 0]
NoData == [none |-> TRUE]
NoRet == [fn |-> "none", res |-> Ok(NaN)]
Keys == {"form", "molwt", "rb", "glob", "pbf"}

Fresh ==
    /\ num_confs = 0 /\ i = 0 /\ globs = <<>> /\ pbfs = <<>>
    /\ pymol = Unbound /\ data = NoData /\ outcome = "none" /\ err = "none"
    /\ visited = <<>> /\ reads = <<>>

\* a bond joins two atoms: a molecule of n atoms is given fewer than n bonds
WellFormed(m) == Len(m.bonds) = 0 \/ Len(m.bonds) < m.natoms

\* The search's result is modelled as independent of the geometry it starts
\* from, which average_properties never reads: Spec starts every molecule of
\* n atoms from one geometry.
StartCloud(n) == CHOOSE p \in Clouds(n) : TRUE

Init ==
    /\ mol \in { m \in Molecules :
                  /\ WellFormed(m) /\ Len(m.bonds) <= MaxMolBonds
                  /\ m.natoms > 0 => m.confs = <<StartCloud(m.natoms)>> }
    /\ pc = "idle"
    /\ Fresh
    /\ ret = NoRet

InitFn ==
    /\ mol \in { m \in Molecules : WellFormed(m) }
    /\ pc = "idle"
    /\ Fresh
    /\ ret = NoRet

\* lines 20-24: the ensemble is generated into mol; accumulators allocated
Call ==
    /\ pc = "idle"
    /\ \E ens \in Ensembles(mol.natoms) :
         \E c \in {0} \cup (0..(Len(ens) - 1)) :
            /\ mol' = run_confab(mol, ens, c)
            /\ num_confs' = NumConformers(mol')
            /\ globs' = np_empty(num_confs')
            /\ pbfs' = np_empty(num_confs')
    /\ i' = 0
    /\ pc' = "loop"
    /\ UNCHANGED <<pymol, data, outcome, err, visited, reads, ret>>

\* lines 25-27: next index, SetConformer, a new view
LoopHead ==
    /\ pc = "loop"
    /\ RangeHasNext(i, num_confs)
    /\ mol' = SetConformer(mol, i)
    /\ pymol' = [bound |-> TRUE, conf |-> i]
    /\ visited' = Append(visited, i)
    /\ pc' = "glob"
    /\ UNCHANGED <<num_confs, i, globs, pbfs, data, outcome, err, reads, ret>>

\* line 29
LoopGlob ==
    /\ pc = "glob"
    /\ \E r \in {calc_glob(Pybel(mol))} :
           IF r.ok
           THEN /\ globs' = [globs EXCEPT ![i + 1] = r.val]
                /\ pc' = "pbf"
                /\ UNCHANGED <<outcome, err>>
           ELSE /\ outcome' = "raise"
                /\ err' = r.err
                /\ pc' = "done"
                /\ UNCHANGED globs
    /\ UNCHANGED <<mol, num_confs, i, pbfs, pymol, data, visited, reads, ret>>

\* line 30
LoopPbf ==
    /\ pc = "pbf"
    /\ \E k \in NormalAxes(Pybel(mol).atoms) :
         \E r \in {calc_pbf(Pybel(mol), k)} :
             IF r.ok
             THEN /\ pbfs' = [pbfs EXCEPT ![i + 1] = r.val]
                  /\ i' = i + 1
                  /\ pc' = "loop"
                  /\ UNCHANGED <<outcome, err>>
             ELSE /\ outcome' = "raise"
                  /\ err' = r.err
                  /\ pc' = "done"
                  /\ UNCHANGED <<pbfs, i>>
    /\ UNCHANGED <<mol, num_confs, globs, pymol, data, visited, reads, ret>>

\* the reads of lines 33-35, each with the conformer active when it is made
FieldReads(m, p) ==
    << [field |-> "form", conf |-> m.cur, view |-> p.conf],
       [field |-> "molwt", conf |-> m.cur, view |-> p.conf],
       [field |-> "rb", conf |-> m.cur, view |-> p.conf] >>

\* lines 32-38: the loop is exhausted and the dictionary is built; pymol is
\* unbound when the loop body never ran
BuildData ==
    /\ pc = "loop"
    /\ ~RangeHasNext(i, num_confs)
    /\ IF ~pymol.bound
       THEN /\ outcome' = "raise"
            /\ err' = "UnboundLocalError"
            /\ UNCHANGED <<data, reads>>
       ELSE /\ data' = [form |-> formula(Pybel(mol)),
                        molwt |-> molwt(Pybel(mol)),
                        rb |-> rotatable_bonds(Pybel(mol)),
                        glob |-> np_mean(globs),
                        pbf |-> np_mean(pbfs)]
            /\ reads' = reads \o FieldReads(mol, pymol)
            /\ outcome' = "return"
            /\ UNCHANGED err
    /\ pc' = "done"
    /\ UNCHANGED <<mol, num_confs, i, globs, pbfs, pymol, visited, ret>>

\* line 39, or the exception leaving the function: the frame is gone
Return ==
    /\ pc = "done"
    /\ pc' = "exit"
    /\ num_confs' = 0 /\ i' = 0 /\ globs' = <<>> /\ pbfs' = <<>>
    /\ pymol' = Unbound /\ data' = NoData /\ outcome' = "none" /\ err' = "none"
    /\ visited' = <<>> /\ reads' = <<>>
    /\ UNCHANGED <<mol, ret>>

\* the caller applies a descriptor to a view of its molecule
DirectGlob ==
    /\ pc = "idle"
    /\ ret' = [fn |-> "calc_glob", res |-> calc_glob(Pybel(mol))]
    /\ UNCHANGED <<mol, pc, locals>>

DirectPbf ==
    /\ pc = "idle"
    /\ \E k \in NormalAxes(Pybel(mol).atoms) :
         ret' = [fn |-> "calc_pbf", res |-> calc_pbf(Pybel(mol), k)]
    /\ UNCHANGED <<mol, pc, locals>>

DirectRb ==
    /\ pc = "idle"
    /\ ret' = [fn |-> "rotatable_bonds", res |-> Ok(rotatable_bonds(Pybel(mol)))]
    /\ UNCHANGED <<mol, pc, locals>>

Next == Call \/ LoopHead \/ LoopGlob \/ LoopPbf \/ BuildData \/ Return

Spec == Init /\ [][Next]_vars

NextFn == DirectGlob \/ DirectPbf \/ DirectRb

SpecFn == InitFn /\ [][NextFn]_vars

\* ------------------------------------------------------------ properties
\* the view of conformer j (1-based) of the molecule
ViewOf(j) == [atoms |-> mol.confs[j], bonds |-> mol.bonds]

Returned == pc = "done" /\ outcome = "return"

\* the values calc_pbf may give for conformer j, one for each admissible normal
PbfValues(j) ==
    { calc_pbf(ViewOf(j), k).val : k \in NormalAxes(mol.confs[j]) }

\* the arithmetic mean of a non-empty sequence of values
MeanOf(vals) == The({ FracDivInt(total, Len(vals)) : total \in {SumSeq(vals)} })

\* C1: with an ensemble of zero conformers average_properties fails with
\* EmptyEnsembleError, and it never returns a record whose glob or pbf is NaN.
C1_EmptyEnsembleError ==
    /\ (pc = "done" /\ num_confs = 0) => (outcome = "raise" /\ err = "EmptyEnsembleError")
    /\ Returned => (data.glob # NaN /\ data.pbf # NaN)

\* C2: a call ends either with a record of exactly the five keys whose glob
\* and pbf are the means over every conformer of the ensemble, or with an
\* exception and no record.
C2_CompleteOrRaise ==
    pc = "done" =>
        \/ /\ outcome = "return" /\ err = "none"
           /\ DOMAIN data = Keys
           /\ NumConformers(mol) >= 1
           /\ data.form = formula(Pybel(mol)) /\ data.molwt = molwt(Pybel(mol))
           /\ data.glob = MeanOf([j \in 1..NumConformers(mol) |-> calc_glob(ViewOf(j)).val])
           /\ \E pv \in {[j \in 1..NumConformers(mol) |-> PbfValues(j)]} :
                \E vs \in [1..NumConformers(mol) -> UNION { pv[j] : j \in DOMAIN pv }] :
                    /\ \A j \in DOMAIN pv : vs[j] \in pv[j]
                    /\ data.pbf = MeanOf(vs)
        \/ /\ outcome = "raise" /\ err # "none"
           /\ DOMAIN data = DOMAIN NoData

C2_Witness ==
    /\ Returned /\ num_confs = 2
    /\ globs[1] # globs[2] /\ pbfs[1] # pbfs[2]

\* C3: calc_glob returns 0, without raising, on a molecule of zero atoms.
C3_EmptyCloudGivesZero ==
    (ret.fn = "calc_glob" /\ Pybel(mol).atoms = <<>>) => ret.res = Ok(Frac(0, 1))

\* C4: calc_glob returns -1, without raising, on every cloud of n >= 1 rows
\* that are all the same point.
C4_RepeatedPointGivesMinusOne ==
    (/\ ret.fn = "calc_glob"
     /\ Len(Pybel(mol).atoms) >= 1
     /\ \A a \in 1..Len(Pybel(mol).atoms) : Pybel(mol).atoms[a] = Pybel(mol).atoms[1])
    => ret.res = Ok(Frac(-1, 1))

\* C5: for an ensemble of one conformer the record's glob and pbf are
\* calc_glob and calc_pbf of that conformer.
C5_SingleConformer ==
    (Returned /\ num_confs = 1) =>
        /\ data.glob = calc_glob(ViewOf(1)).val
        /\ data.pbf \in PbfValues(1)

C5_Witness ==
    /\ Returned /\ num_confs = 1
    /\ data.glob = Frac(1, 4) /\ data.pbf = Frac(1, 2)

\* C6: rotatable_bonds returns the number of bonds that are rotors and not
\* amides, whatever the bond graph, and the same number whichever conformer
\* of the molecule the view reads its coordinates from.
C6_RotatableBonds ==
    ret.fn = "rotatable_bonds" =>
        /\ ret.res.ok
        /\ ret.res.val = Cardinality({ j \in 1..Len(mol.bonds) :
                                         mol.bonds[j].rotor /\ ~mol.bonds[j].amide })
        /\ \A c \in Clouds(mol.natoms) :
             rotatable_bonds([atoms |-> c, bonds |-> mol.bonds]) = ret.res.val

C6_Witness ==
    /\ ret.fn = "rotatable_bonds" /\ ret.res.val = 2
    /\ \E j \in 1..Len(mol.bonds) : mol.bonds[j].rotor /\ mol.bonds[j].amide

\* C7 (as claimed): a call leaves the caller's molecule, its conformer list and
\* its active-conformer cursor, unchanged.
C7_InputUnchanged == [][mol'.confs = mol.confs /\ mol'.cur = mol.cur]_vars

\* C7 (amended): a call leaves the bond graph and the atom count of the
\* caller's molecule unchanged, but writes the generated ensemble into it and
\* moves its cursor: when a record is returned the molecule holds the N
\* conformers of the ensemble and conformer N-1 is active.
C7_MutatesInPlace ==
    /\ [][mol'.bonds = mol.bonds /\ mol'.natoms = mol.natoms]_vars
    /\ [](Returned => (NumConformers(mol) = num_confs /\ mol.cur = num_confs - 1))

C7_Witness == Returned /\ num_confs = 2 /\ mol.cur = 1

\* C8: a returned record has rb a natural number, pbf >= 0 and glob in
\* [-1, 1], each conformer's globularity being -1 or in [0, 1].
C8_FieldRanges ==
    Returned =>
        /\ data.rb \in Nat
        /\ IsNum(data.pbf) /\ FracLeq(Frac(0, 1), data.pbf)
        /\ IsNum(data.glob)
        /\ FracLeq(Frac(-1, 1), data.glob) /\ FracLeq(data.glob, Frac(1, 1))
        /\ \A j \in 1..num_confs :
             /\ IsNum(globs[j])
             /\ \/ globs[j] = Frac(-1, 1)
                \/ FracLeq(Frac(0, 1), globs[j]) /\ FracLeq(globs[j], Frac(1, 1))

C8_Witness ==
    /\ Returned /\ num_confs = 2
    /\ globs[1] = Frac(-1, 1) /\ globs[2] = Frac(1, 4)
    /\ data.glob = Frac(-3, 8)

\* C9: the loop takes the indices 0, 1, ... in ascending order, each once;
\* conformer i is active while globs[i] and pbfs[i] are computed, so the slot
\* just written holds the descriptor of its own conformer; and the means are
\* taken only when all N slots are written.
C9_LoopOrder ==
    /\ visited = [j \in 1..Len(visited) |-> j - 1]
    /\ Len(visited) <= num_confs
    /\ pc \in {"glob", "pbf"} =>
         /\ visited[Len(visited)] = i
         /\ mol.cur = i
         /\ pymol = [bound |-> TRUE, conf |-> i]
    /\ \A j \in 1..Len(globs) :
         /\ globs[j] # Uninit <=> (j <= i \/ (j = i + 1 /\ pc = "pbf"))
         /\ pbfs[j] # Uninit <=> j <= i
    /\ pc = "pbf" => globs[i + 1] = calc_glob(ViewOf(i + 1)).val
    /\ (pc = "loop" /\ i >= 1) => pbfs[i] \in PbfValues(i)
    /\ Returned =>
         /\ Len(visited) = num_confs
         /\ Len(globs) = num_confs /\ Len(pbfs) = num_confs
         /\ \A j \in 1..num_confs : globs[j] # Uninit /\ pbfs[j] # Uninit

C9_Witness ==
    /\ Returned /\ visited = <<0, 1>>
    /\ globs[1] # globs[2]

\* C10: form, molwt and rb are read once each, after the loop has taken all
\* its indices, through the view of the last conformer made active, N-1;
\* nothing is read while no conformer has been made active.
C10_ReadsAfterLoop ==
    /\ ~pymol.bound => reads = <<>>
    /\ Returned => reads # <<>>
    /\ reads # <<>> =>
         /\ pc = "done"
         /\ Len(visited) = num_confs /\ num_confs >= 1
         /\ [r \in 1..Len(reads) |-> reads[r].field] = <<"form", "molwt", "rb">>
         /\ \A r \in 1..Len(reads) :
              reads[r].conf = num_confs - 1 /\ reads[r].view = num_confs - 1

C10_Witness ==
    /\ Returned /\ num_confs = 2
    /\ Len(reads) = 3 /\ reads[3].conf = 1

====
